---------------------------- MODULE Spec2Model ----------------------------
(***************************************************************************)
(* Model of hvpp's VMCS interface (src/src/hvpp/hvpp/vcpu_vmcs.cpp): the   *)
(* typed field accessors of a vcpu and the event injection / exit decode   *)
(* protocol built on them.                                                 *)
(*                                                                         *)
(* The VMCS is a function from field names to unsigned integers.  Every    *)
(* member function of vcpu is an operator over an execution context        *)
(*   [vmcs, trace, failed]                                                 *)
(* whose trace lists the vmread / vmwrite / hvpp_assert events of the call *)
(* in program order, so that "is not read", "is not written" and "before   *)
(* any check" are statements about the trace.                              *)
(***************************************************************************)
EXTENDS Integers, Sequences, FiniteSets, TLC

VARIABLES
  vmcs,                  \* the active VMCS: field name -> value
  io_bitmap_,            \* vcpu::io_bitmap_  (owned storage: halves a and b)
  msr_bitmap_,           \* vcpu::msr_bitmap_ (owned storage)
  suppress_rip_adjust_,  \* vcpu::suppress_rip_adjust_
  caps,                  \* VMX capability MSRs: group -> [allowed0, allowed1]
  last,                  \* the call the caller has just made and not yet
                         \* looked at: its name, argument, the VMCS before
                         \* it, its trace and its result
  ctrl_written,          \* the control fields a control-state setter has
                         \* written so far
  calls                  \* how many control-state setters have been called

vars == <<vmcs, io_bitmap_, msr_bitmap_, suppress_rip_adjust_, caps, last,
          ctrl_written, calls>>

(***************************************************************************)
(* Bounds of the model.                                                    *)
(***************************************************************************)
\* instruction lengths range over 0..MaxLen
MaxLen == 2
\* the runs of the control-state setters are MaxCalls calls long
MaxCalls == 2
\* error codes range over 0..MaxErrorCode and the all-ones word
MaxErrorCode == 1

(***************************************************************************)
(* Machine words.  A 32-bit word is held as the integer with the same bit  *)
(* pattern in two's complement: uint32_t 0xFFFFFFFF and int -1 are the     *)
(* same value here, so a conversion between uint32_t and int, which keeps  *)
(* the pattern, keeps the value.  Bit 31 is the sign.                      *)
(***************************************************************************)
Pow2(n) == 2 ^ n

\* the word with only bit 31 set
SignBit == (-Pow2(30)) - Pow2(30)

\* the word with every bit set
AllOnes == 0 - 1

\* the bit at position b of word x (\div rounds down, % is never negative)
Bit(x, b) == IF b = 31 THEN (IF x < 0 THEN 1 ELSE 0) ELSE (x \div Pow2(b)) % 2

\* the word with bit b set and no other
BitWord(b) == IF b = 31 THEN SignBit ELSE Pow2(b)

\* x & y on the bits lo..hi
RECURSIVE BitAndRange(_, _, _, _)
BitAndRange(x, y, lo, hi) ==
  IF lo = hi
  THEN (IF Bit(x, lo) = 1 /\ Bit(y, lo) = 1 THEN BitWord(lo) ELSE 0)
  ELSE LET mid == (lo + hi) \div 2
       IN  BitAndRange(x, y, lo, mid) + BitAndRange(x, y, mid + 1, hi)

\* x | y on the bits lo..hi
RECURSIVE BitOrRange(_, _, _, _)
BitOrRange(x, y, lo, hi) ==
  IF lo = hi
  THEN (IF Bit(x, lo) = 1 \/ Bit(y, lo) = 1 THEN BitWord(lo) ELSE 0)
  ELSE LET mid == (lo + hi) \div 2
       IN  BitOrRange(x, y, lo, mid) + BitOrRange(x, y, mid + 1, hi)

\* x & y and x | y on 32-bit words
BitAnd(x, y) == BitAndRange(x, y, 0, 31)
BitOr(x, y) == BitOrRange(x, y, 0, 31)

(***************************************************************************)
(* VMCS fields (vmx::vmcs::field) and the primitive layer.                 *)
(***************************************************************************)
GuestSegs == {"cs", "ds", "es", "fs", "gs", "ss", "tr", "ldtr"}
HostSegs == {"cs", "ds", "es", "fs", "gs", "ss", "tr"}
HostSegsWithBase == {"fs", "gs", "tr"}

\* fields of 16 bits: the segment selectors
Fields16 ==
  {"guest_" \o s \o "_selector" : s \in GuestSegs}
  \cup {"host_" \o s \o "_selector" : s \in HostSegs}

\* fields of 32 bits
Fields32 ==
  { "ctrl_pin_based_vm_execution_controls",
    "ctrl_processor_based_vm_execution_controls",
    "ctrl_secondary_processor_based_vm_execution_controls",
    "ctrl_vmentry_controls", "ctrl_vmexit_controls",
    "ctrl_exception_bitmap",
    "ctrl_pagefault_error_code_mask", "ctrl_pagefault_error_code_match",
    "ctrl_vmentry_instruction_length", "ctrl_vmentry_interruption_info",
    "ctrl_vmentry_exception_error_code",
    "vmexit_instruction_error", "vmexit_instruction_info",
    "vmexit_instruction_length", "vmexit_interruption_info",
    "vmexit_interruption_error_code", "vmexit_reason",
    "guest_gdtr_limit", "guest_idtr_limit" }
  \cup {"guest_" \o s \o "_limit" : s \in GuestSegs}
  \cup {"guest_" \o s \o "_access_rights" : s \in GuestSegs}

\* fields of 64 bits and of natural width
Fields64 ==
  { "ctrl_msr_bitmap_address", "ctrl_io_bitmap_a_address",
    "ctrl_io_bitmap_b_address",
    "vmexit_qualification", "vmexit_guest_physical_address",
    "vmexit_guest_linear_address",
    "ctrl_cr0_read_shadow", "ctrl_cr4_read_shadow",
    "guest_cr0", "guest_cr3", "guest_cr4", "guest_dr7", "guest_debugctl",
    "guest_rsp", "guest_rip", "guest_rflags",
    "guest_gdtr_base", "guest_idtr_base",
    "host_cr0", "host_cr3", "host_cr4", "host_rsp", "host_rip",
    "host_gdtr_base", "host_idtr_base" }
  \cup {"guest_" \o s \o "_base" : s \in GuestSegs}
  \cup {"host_" \o s \o "_base" : s \in HostSegsWithBase}

Fields == Fields16 \cup Fields32 \cup Fields64

\* the value a field of the VMCS keeps of a value written to it: a 16-bit
\* field keeps the low 16 bits; the wider fields keep every word of the model
FieldValue(f, v) == IF f \in Fields16 THEN v % Pow2(16) ELSE v

\* an execution context: the VMCS, the events of the call so far, and
\* whether a contract check has failed (the call is then dead)
Ctx(m) == [vmcs |-> m, trace |-> <<>>, failed |-> FALSE]

Event(k, f, v) == [k |-> k, f |-> f, v |-> v]

\* vmx::vmwrite(field, value): the field takes the value, cut to its width
vmwrite(c, f, v) ==
  IF c.failed THEN c
  ELSE [c EXCEPT !.vmcs[f] = FieldValue(f, v),
                 !.trace = Append(@, Event("vmwrite", f, FieldValue(f, v)))]

\* vmx::vmread(field, result): the value read is c.vmcs[f]; the context
\* records that the field was read
vmread(c, f) ==
  IF c.failed THEN c
  ELSE [c EXCEPT !.trace = Append(@, Event("vmread", f, c.vmcs[f]))]

\* hvpp_assert(expression): a failed check is fatal; nothing after it runs
hvpp_assert(c, expression) ==
  IF c.failed THEN c
  ELSE [c EXCEPT !.failed = ~expression,
                 !.trace = Append(@, Event("assert", "", IF expression THEN 1 ELSE 0))]

\* what a trace says
FieldsWritten(t) == {t[i].f : i \in {j \in DOMAIN t : t[j].k = "vmwrite"}}
FieldsRead(t) == {t[i].f : i \in {j \in DOMAIN t : t[j].k = "vmread"}}
Asserts(t) == {j \in DOMAIN t : t[j].k = "assert"}

(***************************************************************************)
(* vmx::interrupt_info: the interruption-information word.                 *)
(*   vector [7:0], type [10:8], error_code_valid 11, nmi_unblocking 12,    *)
(*   valid 31.                                                             *)
(***************************************************************************)
info_vector(w) == w % 256
info_type(w) == (w \div 256) % 8
info_error_code_valid(w) == Bit(w, 11) = 1
info_nmi_unblocking(w) == Bit(w, 12) = 1
info_valid(w) == Bit(w, 31) = 1

InfoWord(vec, typ, ecv, unb, val) ==
  vec + 256 * typ + (IF ecv THEN Pow2(11) ELSE 0)
      + (IF unb THEN Pow2(12) ELSE 0) + (IF val THEN SignBit ELSE 0)

\* vmx::interrupt_type
external == 0
nmi == 2
hardware_exception == 3
software == 4
privileged_exception == 5
software_exception == 6
other_event == 7

\* exception_vector
divide_error == 0
breakpoint == 3
double_fault == 8
invalid_tss == 10
segment_not_present == 11
stack_segment_fault == 12
general_protection == 13
page_fault == 14
alignment_check == 17

(***************************************************************************)
(* hvpp::interrupt_info: the descriptor inject takes and the exit decode   *)
(* returns: [info_, error_code_, rip_adjust_], rip_adjust_ an int with -1  *)
(* for "unspecified".                                                      *)
(***************************************************************************)
Descriptor(w, e, r) == [info_ |-> w, error_code_ |-> e, rip_adjust_ |-> r]

interrupt_vector(i) == info_vector(i.info_)
interrupt_type(i) == info_type(i.info_)
interrupt_error_code(i) == i.error_code_
interrupt_error_code_valid(i) == info_error_code_valid(i.info_)
interrupt_valid(i) == info_valid(i.info_)

(***************************************************************************)
(* Control entry state and exit state accessors.                           *)
(***************************************************************************)
\* void vcpu::entry_instruction_length(uint32_t instruction_length)
set_entry_instruction_length(c, instruction_length) ==
  vmwrite(c, "ctrl_vmentry_instruction_length", instruction_length)

\* void vcpu::entry_interruption_info(vmx::interrupt_info info)
set_entry_interruption_info(c, info) ==
  vmwrite(c, "ctrl_vmentry_interruption_info", info)

\* void vcpu::entry_interruption_error_code(exception_error_code error_code)
set_entry_interruption_error_code(c, error_code) ==
  vmwrite(c, "ctrl_vmentry_exception_error_code", error_code)

\* auto vcpu::exit_instruction_length() const -> uint32_t
exit_instruction_length(c) == vmread(c, "vmexit_instruction_length")
exit_instruction_length_value(c) == c.vmcs["vmexit_instruction_length"]

\* auto vcpu::exit_interruption_info() const -> vmx::interrupt_info
exit_interruption_info(c) == vmread(c, "vmexit_interruption_info")
exit_interruption_info_value(c) == c.vmcs["vmexit_interruption_info"]

\* auto vcpu::exit_interruption_error_code() const -> exception_error_code
exit_interruption_error_code(c) == vmread(c, "vmexit_interruption_error_code")
exit_interruption_error_code_value(c) == c.vmcs["vmexit_interruption_error_code"]

(***************************************************************************)
(* void vcpu::inject(interrupt_info interrupt)                             *)
(***************************************************************************)
\* the vectors of the first case group: an error code must be provided
ErrorCodeVectors ==
  {invalid_tss, segment_not_present, stack_segment_fault, general_protection,
   page_fault}

\* the vectors of the second case group: the error code is always 0
ZeroErrorCodeVectors == {double_fault, alignment_check}

\* mutant: the first case group writes the error code without checking that
\* the descriptor carries one
inject_error_code_unchecked(c, interrupt) ==
  IF interrupt_vector(interrupt) \in ErrorCodeVectors
  THEN set_entry_interruption_error_code(c, interrupt_error_code(interrupt))
  ELSE IF interrupt_vector(interrupt) \in ZeroErrorCodeVectors
  THEN set_entry_interruption_error_code(
         hvpp_assert(c, interrupt_error_code_valid(interrupt)
                        /\ interrupt_error_code(interrupt) = 0),
         interrupt_error_code(interrupt))
  ELSE c

\* mutant: the second case group only checks that an error code is there,
\* not that it is zero
inject_error_code_any_value(c, interrupt) ==
  IF interrupt_vector(interrupt) \in ErrorCodeVectors \cup ZeroErrorCodeVectors
  THEN set_entry_interruption_error_code(
         hvpp_assert(c, interrupt_error_code_valid(interrupt)),
         interrupt_error_code(interrupt))
  ELSE c

\* mutant: the default case writes the error code whenever the descriptor
\* carries one
inject_error_code_whenever_valid(c, interrupt) ==
  IF interrupt_vector(interrupt) \in ErrorCodeVectors
  THEN set_entry_interruption_error_code(
         hvpp_assert(c, interrupt_error_code_valid(interrupt)),
         interrupt_error_code(interrupt))
  ELSE IF interrupt_vector(interrupt) \in ZeroErrorCodeVectors
  THEN set_entry_interruption_error_code(
         hvpp_assert(c, interrupt_error_code_valid(interrupt)
                        /\ interrupt_error_code(interrupt) = 0),
         interrupt_error_code(interrupt))
  ELSE IF interrupt_error_code_valid(interrupt)
  THEN set_entry_interruption_error_code(c, interrupt_error_code(interrupt))
  ELSE c

\* the switch on interrupt.vector() of a hardware exception
inject_error_code(c, interrupt) ==
  IF interrupt_vector(interrupt) \in ErrorCodeVectors
  THEN set_entry_interruption_error_code(
         hvpp_assert(c, interrupt_error_code_valid(interrupt)),
         interrupt_error_code(interrupt))
  ELSE IF interrupt_vector(interrupt) \in ZeroErrorCodeVectors
  THEN set_entry_interruption_error_code(
         hvpp_assert(c, interrupt_error_code_valid(interrupt)
                        /\ interrupt_error_code(interrupt) = 0),
         interrupt_error_code(interrupt))
  ELSE c

\* mutant: the hardware_exception label sits with the software class
SoftwareTypes_with_hardware ==
  {software, privileged_exception, software_exception, hardware_exception}

\* the types of the second case group of the switch on interrupt.type()
SoftwareTypes == {software, privileged_exception, software_exception}

\* mutant: a resolved length of zero is written too (>= for >)
inject_instruction_length_writes_zero(c, interrupt) ==
  IF interrupt_type(interrupt) \in SoftwareTypes
  THEN LET unspecified == interrupt.rip_adjust_ = -1
           c1 == IF unspecified THEN exit_instruction_length(c) ELSE c
           rip_adjust == IF unspecified
                         THEN exit_instruction_length_value(c)
                         ELSE interrupt.rip_adjust_
       IN  IF rip_adjust >= 0
           THEN set_entry_instruction_length(c1, rip_adjust)
           ELSE c1
  ELSE c

\* mutant: every length that is not positive counts as unspecified
\* (<= 0 for == -1)
inject_instruction_length_zero_unspecified(c, interrupt) ==
  IF interrupt_type(interrupt) \in SoftwareTypes
  THEN LET unspecified == interrupt.rip_adjust_ <= 0
           c1 == IF unspecified THEN exit_instruction_length(c) ELSE c
           rip_adjust == IF unspecified
                         THEN exit_instruction_length_value(c)
                         ELSE interrupt.rip_adjust_
       IN  IF rip_adjust > 0
           THEN set_entry_instruction_length(c1, rip_adjust)
           ELSE c1
  ELSE c

\* the switch on interrupt.type(): the instruction length of a software
\* class event
inject_instruction_length(c, interrupt) ==
  IF interrupt_type(interrupt) \in SoftwareTypes
  THEN LET unspecified == interrupt.rip_adjust_ = -1
           c1 == IF unspecified THEN exit_instruction_length(c) ELSE c
           rip_adjust == IF unspecified
                         THEN exit_instruction_length_value(c)
                         ELSE interrupt.rip_adjust_
       IN  IF rip_adjust > 0
           THEN set_entry_instruction_length(c1, rip_adjust)
           ELSE c1
  ELSE c

\* mutant: the interruption information is written only for a valid
\* descriptor
inject_info_only_if_valid(c, interrupt) ==
  LET c0 == IF interrupt_valid(interrupt)
            THEN set_entry_interruption_info(c, interrupt.info_)
            ELSE c
      c1 == IF interrupt_valid(interrupt)
               /\ interrupt_type(interrupt) = hardware_exception
            THEN inject_error_code(c0, interrupt)
            ELSE c0
  IN  IF interrupt_valid(interrupt)
      THEN inject_instruction_length(c1, interrupt)
      ELSE c1

\* void vcpu::inject(interrupt_info interrupt)
inject(c, interrupt) ==
  LET c0 == set_entry_interruption_info(c, interrupt.info_)
      c1 == IF interrupt_valid(interrupt)
               /\ interrupt_type(interrupt) = hardware_exception
            THEN inject_error_code(c0, interrupt)
            ELSE c0
  IN  IF interrupt_valid(interrupt)
      THEN inject_instruction_length(c1, interrupt)
      ELSE c1

(***************************************************************************)
(* The values the model draws from.                                        *)
(***************************************************************************)
InstrLengths == 0 .. MaxLen
RipAdjusts == {-1} \cup InstrLengths
\* what the VM-exit instruction-length field may hold: the lengths, and the
\* words that are not positive as an int
ExitLengths == InstrLengths \cup {AllOnes, SignBit}
ErrorCodes == (0 .. MaxErrorCode) \cup {AllOnes}

\* every vector inject tells apart, and two it does not
Vectors ==
  ErrorCodeVectors \cup ZeroErrorCodeVectors \cup {divide_error, breakpoint}
\* the vectors tried with the types other than hardware_exception
OtherVectors == {breakpoint, page_fault}
Types == 0 .. 7

TypeVectors(t) == IF t = hardware_exception THEN Vectors ELSE OtherVectors

\* interruption-information words as a caller of inject builds them
InjectWords ==
  UNION { { InfoWord(v, t, ecv, FALSE, val) :
              v \in TypeVectors(t), ecv \in BOOLEAN, val \in BOOLEAN } :
          t \in Types }

Descriptors ==
  { Descriptor(w, e, r) : w \in InjectWords, e \in ErrorCodes, r \in RipAdjusts }

(***************************************************************************)
(* The state machine.                                                      *)
(***************************************************************************)
NoCall == [op |-> "none"]

Idle == last.op = "none"

\* the capability MSR pairs of a processor that constrains nothing
Groups == {"pin", "proc", "entry", "exit"}
NoCaps == [g \in Groups |-> [allowed0 |-> 0, allowed1 |-> AllOnes]]

Init ==
  /\ vmcs = [f \in Fields |-> 0]
  /\ io_bitmap_ = [a |-> 0, b |-> 0]
  /\ msr_bitmap_ = 0
  /\ suppress_rip_adjust_ = FALSE
  /\ caps = NoCaps
  /\ last = NoCall
  /\ ctrl_written = {}
  /\ calls = 0

\* the caller calls inject(interrupt); the model follows a vcpu up to its
\* first call of inject and looks at the outcome
Inject(interrupt) ==
  /\ Idle
  /\ LET c == inject(Ctx(vmcs), interrupt)
     IN  /\ vmcs' = c.vmcs
         /\ last' = [op |-> "inject", arg |-> interrupt, pre |-> vmcs,
                     trace |-> c.trace, failed |-> c.failed]
  /\ UNCHANGED <<io_bitmap_, msr_bitmap_, suppress_rip_adjust_, caps,
               ctrl_written, calls>>

\* the caller calls entry_instruction_length(instruction_length)
SetEntryInstructionLength(instruction_length) ==
  /\ Idle
  /\ vmcs' = set_entry_instruction_length(Ctx(vmcs), instruction_length).vmcs
  /\ UNCHANGED <<io_bitmap_, msr_bitmap_, suppress_rip_adjust_, caps, last,
               ctrl_written, calls>>

\* the caller calls entry_interruption_error_code(error_code)
SetEntryInterruptionErrorCode(error_code) ==
  /\ Idle
  /\ vmcs' = set_entry_interruption_error_code(Ctx(vmcs), error_code).vmcs
  /\ UNCHANGED <<io_bitmap_, msr_bitmap_, suppress_rip_adjust_, caps, last,
               ctrl_written, calls>>

\* the guest runs and exits on an instruction of some length: the processor
\* records the length and reports no event
InstructionExit(len) ==
  /\ Idle
  /\ vmcs' = [vmcs EXCEPT !["vmexit_instruction_length"] = len,
                          !["vmexit_interruption_info"] = 0]
  /\ UNCHANGED <<io_bitmap_, msr_bitmap_, suppress_rip_adjust_, caps, last,
               ctrl_written, calls>>

NextInject ==
  \/ \E interrupt \in Descriptors : Inject(interrupt)
  \/ \E len \in InstrLengths : SetEntryInstructionLength(len)
  \/ \E e \in ErrorCodes : SetEntryInterruptionErrorCode(e)
  \/ \E len \in ExitLengths : InstructionExit(len)

SpecInject == Init /\ [][NextInject]_vars

(***************************************************************************)
(* Properties of inject, stated of the call just made: last.arg is the     *)
(* descriptor, last.pre the VMCS before the call, vmcs the VMCS after it.  *)
(***************************************************************************)
Injected == last.op = "inject"

EntryInfo == "ctrl_vmentry_interruption_info"
EntryErrorCode == "ctrl_vmentry_exception_error_code"
EntryLength == "ctrl_vmentry_instruction_length"
ExitInfo == "vmexit_interruption_info"
ExitErrorCode == "vmexit_interruption_error_code"
ExitLength == "vmexit_instruction_length"

\* a contract check of the call has failed
ContractViolation ==
  /\ last.failed
  /\ \E j \in Asserts(last.trace) : last.trace[j].v = 0

\* the call ran to its end with no contract check failing
Succeeded ==
  /\ ~last.failed
  /\ \A j \in Asserts(last.trace) : last.trace[j].v = 1

\* C1: injecting a valid hardware exception with vector #TS, #NP, #SS, #GP
\* or #PF fails a contract check when the descriptor carries no error code;
\* when it carries one the call succeeds and the VM-entry exception error
\* code field then holds that error code.
C1_ErrorCodeMandatory ==
  ( /\ Injected
    /\ interrupt_valid(last.arg)
    /\ interrupt_type(last.arg) = 3
    /\ interrupt_vector(last.arg) \in {10, 11, 12, 13, 14} )
  => IF Bit(last.arg.info_, 11) = 1
     THEN Succeeded /\ vmcs[EntryErrorCode] = last.arg.error_code_
     ELSE ContractViolation

C1_Witness ==
  /\ Injected
  /\ interrupt_valid(last.arg)
  /\ interrupt_type(last.arg) = 3
  /\ interrupt_vector(last.arg) = 13
  /\ Bit(last.arg.info_, 11) = 1
  /\ last.arg.error_code_ = AllOnes
  /\ last.pre[EntryErrorCode] = 1
  /\ vmcs[EntryErrorCode] = AllOnes

\* C2: injecting a valid hardware exception with vector #DF or #AC fails a
\* contract check when the descriptor carries no error code or a nonzero
\* one; with an error code of zero the call succeeds and the VM-entry
\* exception error code field then holds zero.
C2_ErrorCodeZero ==
  ( /\ Injected
    /\ interrupt_valid(last.arg)
    /\ interrupt_type(last.arg) = 3
    /\ interrupt_vector(last.arg) \in {8, 17} )
  => IF Bit(last.arg.info_, 11) = 1 /\ last.arg.error_code_ = 0
     THEN Succeeded /\ vmcs[EntryErrorCode] = 0
     ELSE ContractViolation

C2_Witness ==
  /\ Injected
  /\ interrupt_valid(last.arg)
  /\ interrupt_type(last.arg) = 3
  /\ interrupt_vector(last.arg) = 8
  /\ Bit(last.arg.info_, 11) = 1
  /\ last.arg.error_code_ = 0
  /\ last.pre[EntryErrorCode] = 1
  /\ vmcs[EntryErrorCode] = 0
  /\ Succeeded

\* the call is an inject of a valid software interrupt, privileged software
\* exception or software exception
InjectedSoftwareClass ==
  /\ Injected
  /\ interrupt_valid(last.arg)
  /\ interrupt_type(last.arg) \in {4, 5, 6}

\* C3 as claimed: with rip_adjust unspecified, whatever the VM-exit
\* instruction length was (zero included), the VM-entry instruction length
\* after inject equals it.
C3_Original ==
  (InjectedSoftwareClass /\ last.arg.rip_adjust_ = -1)
  => vmcs[EntryLength] = last.pre[ExitLength]

\* C3, amended: with rip_adjust unspecified inject reads the VM-exit
\* instruction length; when that length is positive (as an int) the
\* VM-entry instruction length after inject equals it; when it is zero (or
\* not positive as an int) inject does not write the VM-entry instruction
\* length, which keeps its previous value.
C3_ExitLengthForwarded ==
  (InjectedSoftwareClass /\ last.arg.rip_adjust_ = -1)
  => /\ ExitLength \in FieldsRead(last.trace)
     /\ IF last.pre[ExitLength] > 0
        THEN vmcs[EntryLength] = last.pre[ExitLength]
        ELSE /\ EntryLength \notin FieldsWritten(last.trace)
             /\ vmcs[EntryLength] = last.pre[EntryLength]

C3_Witness ==
  /\ InjectedSoftwareClass
  /\ last.arg.rip_adjust_ = -1
  /\ last.pre[ExitLength] = 2
  /\ last.pre[EntryLength] = 1
  /\ vmcs[EntryLength] = 2

\* C4: with an explicit rip_adjust n, inject never reads the VM-exit
\* instruction length; for n > 0 the VM-entry instruction length after
\* inject is n; for n = 0 inject does not write the VM-entry instruction
\* length, which keeps its previous value.
C4_ExplicitLength ==
  (InjectedSoftwareClass /\ last.arg.rip_adjust_ >= 0)
  => /\ IF last.arg.rip_adjust_ > 0
        THEN vmcs[EntryLength] = last.arg.rip_adjust_
        ELSE /\ EntryLength \notin FieldsWritten(last.trace)
             /\ vmcs[EntryLength] = last.pre[EntryLength]
     /\ ExitLength \notin FieldsRead(last.trace)

C4_Witness ==
  /\ InjectedSoftwareClass
  /\ last.arg.rip_adjust_ = 0
  /\ last.pre[ExitLength] = 2
  /\ last.pre[EntryLength] = 1
  /\ vmcs[EntryLength] = 1

\* C5: for a descriptor of type external interrupt, NMI, hardware exception
\* or other event, valid or not, whatever its vector, error code and
\* rip_adjust, inject does not write the VM-entry instruction length: the
\* field is after the call what it was before.
C5_NoLengthForHardwareClass ==
  (Injected /\ interrupt_type(last.arg) \in {0, 2, 3, 7})
  => /\ EntryLength \notin FieldsWritten(last.trace)
     /\ vmcs[EntryLength] = last.pre[EntryLength]

C5_Witness ==
  /\ Injected
  /\ interrupt_valid(last.arg)
  /\ interrupt_type(last.arg) = 3
  /\ interrupt_vector(last.arg) = 3
  /\ last.arg.rip_adjust_ = 2
  /\ last.pre[EntryLength] = 1
  /\ last.pre[ExitLength] = 2
  /\ vmcs[EntryLength] = 1

(***************************************************************************)
(* auto vcpu::exit_interrupt_info() const -> interrupt_info                *)
(*                                                                         *)
(* "interrupt_info result;" is a local whose error_code_ and rip_adjust_   *)
(* are whatever its default constructor leaves there: result0.  The call   *)
(* yields the context after it and the descriptor it returns.              *)
(***************************************************************************)
\* mutant: the error code is read for every valid event, whether or not the
\* word marks one
exit_interrupt_info_always_error_code(c, result0) ==
  LET c0 == exit_interruption_info(c)
      info == exit_interruption_info_value(c)
  IN  IF info_valid(info)
      THEN [ctx |-> exit_instruction_length(exit_interruption_error_code(c0)),
            result |-> Descriptor(info,
                                  exit_interruption_error_code_value(c0),
                                  exit_instruction_length_value(c0))]
      ELSE [ctx |-> c0,
            result |-> Descriptor(info, result0.error_code_, result0.rip_adjust_)]

\* mutant: the decode never reads the error code
exit_interrupt_info_drops_error_code(c, result0) ==
  LET c0 == exit_interruption_info(c)
      info == exit_interruption_info_value(c)
  IN  IF info_valid(info)
      THEN [ctx |-> exit_instruction_length(c0),
            result |-> Descriptor(info, result0.error_code_,
                                  exit_instruction_length_value(c0))]
      ELSE [ctx |-> c0,
            result |-> Descriptor(info, result0.error_code_, result0.rip_adjust_)]

exit_interrupt_info(c, result0) ==
  LET c0 == exit_interruption_info(c)
      info == exit_interruption_info_value(c)
      c1 == IF info_error_code_valid(info)
            THEN exit_interruption_error_code(c0)
            ELSE c0
  IN  IF info_valid(info)
      THEN [ctx |-> exit_instruction_length(c1),
            result |-> Descriptor(info,
                                  IF info_error_code_valid(info)
                                  THEN exit_interruption_error_code_value(c0)
                                  ELSE result0.error_code_,
                                  exit_instruction_length_value(c1))]
      ELSE [ctx |-> c0,
            result |-> Descriptor(info, result0.error_code_, result0.rip_adjust_)]

\* interruption-information words as the processor reports them on VM exit
ExitWords ==
  UNION { { InfoWord(v, t, ecv, unb, val) :
              v \in TypeVectors(t), ecv \in BOOLEAN, unb \in BOOLEAN,
              val \in BOOLEAN } :
          t \in Types }

\* what the members of a default-constructed interrupt_info may hold
DefaultDescriptors ==
  { Descriptor(0, e, r) : e \in ErrorCodes, r \in RipAdjusts }

\* the guest exits: the processor fills the VM-exit interruption
\* information, error code and instruction length; the exit handler runs
VMExit(info, error_code, len) ==
  /\ Idle
  /\ vmcs' = [vmcs EXCEPT ![ "vmexit_interruption_info"] = info,
                          ![ "vmexit_interruption_error_code"] = error_code,
                          ![ "vmexit_instruction_length"] = len]
  /\ last' = [op |-> "vmexit"]
  /\ UNCHANGED <<io_bitmap_, msr_bitmap_, suppress_rip_adjust_, caps,
               ctrl_written, calls>>

\* the exit handler calls exit_interrupt_info()
ExitInterruptInfo(result0) ==
  /\ last.op = "vmexit"
  /\ LET r == exit_interrupt_info(Ctx(vmcs), result0)
     IN  /\ vmcs' = r.ctx.vmcs
         /\ last' = [op |-> "exit_interrupt_info", pre |-> vmcs,
                     result |-> r.result, trace |-> r.ctx.trace,
                     failed |-> r.ctx.failed]
  /\ UNCHANGED <<io_bitmap_, msr_bitmap_, suppress_rip_adjust_, caps,
               ctrl_written, calls>>

NextDecode ==
  \/ \E info \in ExitWords, e \in ErrorCodes, len \in InstrLengths :
       VMExit(info, e, len)
  \/ \E result0 \in DefaultDescriptors : ExitInterruptInfo(result0)

SpecDecode == Init /\ [][NextDecode]_vars

Decoded == last.op = "exit_interrupt_info"

\* C7: exit_interrupt_info() writes no VMCS field.  When the VM-exit
\* interruption information has its valid bit (31) set, the descriptor
\* returned has the vector (bits 7:0), type (bits 10:8) and valid flag of
\* that word, a rip_adjust equal to the VM-exit instruction length, and,
\* when the word's error-code-valid bit (11) is set, an error_code equal to
\* the VM-exit interruption error code, which is not read when the bit is
\* clear.  When the valid bit is clear neither the error code nor the
\* instruction length is read.
C7_DecodeFidelity ==
  Decoded =>
    LET w == last.pre[ExitInfo]
        r == last.result
    IN  /\ vmcs = last.pre
        /\ FieldsWritten(last.trace) = {}
        /\ ~last.failed
        /\ IF w < 0
           THEN /\ interrupt_vector(r) = w % 256
                /\ interrupt_type(r) = (w \div 256) % 8
                /\ interrupt_valid(r)
                /\ r.rip_adjust_ = last.pre[ExitLength]
                /\ IF (w \div 2048) % 2 = 1
                   THEN r.error_code_ = last.pre[ExitErrorCode]
                   ELSE ExitErrorCode \notin FieldsRead(last.trace)
           ELSE /\ ExitErrorCode \notin FieldsRead(last.trace)
                /\ ExitLength \notin FieldsRead(last.trace)

C7_Witness ==
  /\ Decoded
  /\ last.pre[ExitInfo] = InfoWord(14, 3, TRUE, FALSE, TRUE)
  /\ last.pre[ExitErrorCode] = 1
  /\ last.pre[ExitLength] = 2
  /\ last.result = Descriptor(InfoWord(14, 3, TRUE, FALSE, TRUE), 1, 2)

(***************************************************************************)
(* Control state: the execution controls and the IO bitmap.                *)
(***************************************************************************)
PinBased == "ctrl_pin_based_vm_execution_controls"
ProcBased == "ctrl_processor_based_vm_execution_controls"
ProcBased2 == "ctrl_secondary_processor_based_vm_execution_controls"
VmEntry == "ctrl_vmentry_controls"
VmExit == "ctrl_vmexit_controls"
IoBitmapA == "ctrl_io_bitmap_a_address"
IoBitmapB == "ctrl_io_bitmap_b_address"

\* the control field of each group that is written through vmx::adjust
GroupField(g) ==
  CASE g = "pin" -> PinBased
    [] g = "proc" -> ProcBased
    [] g = "entry" -> VmEntry
    [] g = "exit" -> VmExit

\* vmx::adjust(controls): the requested value with the bits the processor
\* does not allow to be 1 cleared and the bits it requires to be 1 set
adjust(g, controls) ==
  BitOr(BitAnd(controls, caps[g].allowed1), caps[g].allowed0)

\* msr::vmx_procbased_ctls::use_io_bitmaps
use_io_bitmaps == 25

\* mutant: the requested value is written as it is
set_pin_based_controls_unadjusted(c, controls) ==
  vmwrite(c, PinBased, controls)

\* void vcpu::pin_based_controls(msr::vmx_pinbased_ctls controls)
set_pin_based_controls(c, controls) ==
  vmwrite(c, PinBased, adjust("pin", controls))

\* auto vcpu::processor_based_controls() const -> msr::vmx_procbased_ctls
processor_based_controls(c) == vmread(c, ProcBased)
processor_based_controls_value(c) == c.vmcs[ProcBased]

\* void vcpu::processor_based_controls(msr::vmx_procbased_ctls controls)
set_processor_based_controls(c, controls) ==
  vmwrite(c, ProcBased, adjust("proc", controls))

\* void vcpu::processor_based_controls2(msr::vmx_procbased_ctls2 controls)
set_processor_based_controls2(c, controls) ==
  vmwrite(c, ProcBased2, controls)

\* void vcpu::vm_entry_controls(msr::vmx_entry_ctls controls)
set_vm_entry_controls(c, controls) ==
  vmwrite(c, VmEntry, adjust("entry", controls))

\* void vcpu::vm_exit_controls(msr::vmx_exit_ctls controls)
set_vm_exit_controls(c, controls) ==
  vmwrite(c, VmExit, adjust("exit", controls))

\* the size of one half of the IO bitmap, and of the MSR bitmap
PageSize == 4096

\* where the members of the vcpu live
msr_bitmap_va == 16 * PageSize
io_bitmap_a_va == 17 * PageSize
io_bitmap_b_va == 18 * PageSize

\* pa_t::from_va(va): the physical address behind a virtual address
from_va(va) == va + 256 * PageSize

\* mutant: the addresses published are those of the caller's bitmap
set_io_bitmap_publishes_argument(c, io_bitmap_va) ==
  LET c0 == processor_based_controls(c)
      procbased_ctls ==
        BitOr(processor_based_controls_value(c), BitWord(use_io_bitmaps))
      c1 == set_processor_based_controls(c0, procbased_ctls)
      c2 == vmwrite(c1, IoBitmapA, from_va(io_bitmap_va))
  IN  vmwrite(c2, IoBitmapB, from_va(io_bitmap_va + PageSize))

\* void vcpu::io_bitmap(const vmx::io_bitmap& io_bitmap), after the copy of
\* the argument (which lives at io_bitmap_va) into io_bitmap_
set_io_bitmap(c, io_bitmap_va) ==
  LET c0 == processor_based_controls(c)
      procbased_ctls ==
        BitOr(processor_based_controls_value(c), BitWord(use_io_bitmaps))
      c1 == set_processor_based_controls(c0, procbased_ctls)
      c2 == vmwrite(c1, IoBitmapA, from_va(io_bitmap_a_va))
  IN  vmwrite(c2, IoBitmapB, from_va(io_bitmap_b_va))

\* the control bits the model varies: bit 1 and the use-IO-bitmaps bit
CtlBits == {1, use_io_bitmaps}

RECURSIVE BitsWord(_)
BitsWord(S) ==
  IF S = {} THEN 0
  ELSE LET b == CHOOSE x \in S : TRUE IN BitWord(b) + BitsWord(S \ {b})

ControlValues == {BitsWord(S) : S \in SUBSET CtlBits}

\* a capability MSR pair: the bits of must are required to be 1, the bits
\* of CtlBits outside may are required to be 0, every other bit is free
CapPair(must, may) ==
  [allowed0 |-> BitsWord(must), allowed1 |-> AllOnes - BitsWord(CtlBits \ may)]

\* the pairs a processor can report: what must be 1 may be 1
CapPairs ==
  << CapPair({}, {1, use_io_bitmaps}),
     CapPair({1}, {1, use_io_bitmaps}),
     CapPair({}, {1}),
     CapPair({use_io_bitmaps}, {1, use_io_bitmaps}),
     CapPair({}, {use_io_bitmaps}),
     CapPair({1}, {1}),
     CapPair({1, use_io_bitmaps}, {1, use_io_bitmaps}),
     CapPair({use_io_bitmaps}, {use_io_bitmaps}),
     CapPair({}, {}) >>

GroupIndex(g) ==
  CASE g = "pin" -> 0 [] g = "proc" -> 1 [] g = "entry" -> 2 [] g = "exit" -> 3

\* the processors of the model: every group meets every pair, and no two
\* groups of a processor have the same pair
CapConfigs ==
  { [g \in Groups |-> CapPairs[((i + 2 * GroupIndex(g)) % Len(CapPairs)) + 1]] :
      i \in 0 .. (Len(CapPairs) - 1) }

\* the contents of an IO bitmap and where a caller keeps one
IoBitmaps == {[a |-> x, b |-> y] : x \in 0 .. 1, y \in 0 .. 1}
ArgumentVas == {32 * PageSize}

InitControl ==
  /\ vmcs = [f \in Fields |-> 0]
  /\ io_bitmap_ = [a |-> 0, b |-> 0]
  /\ msr_bitmap_ = 0
  /\ suppress_rip_adjust_ = FALSE
  /\ caps \in CapConfigs
  /\ last = NoCall
  /\ ctrl_written = {}
  /\ calls = 0

\* a call of a control-state setter that leaves context c
ControlCall(op, arg, c) ==
  /\ calls < MaxCalls
  /\ calls' = calls + 1
  /\ vmcs' = c.vmcs
  /\ ctrl_written' = ctrl_written \cup FieldsWritten(c.trace)
  /\ last' = [op |-> op, arg |-> arg, pre |-> vmcs, trace |-> c.trace,
              failed |-> c.failed]

PinBasedControls(controls) ==
  /\ ControlCall("pin_based_controls", controls,
                 set_pin_based_controls(Ctx(vmcs), controls))
  /\ UNCHANGED <<io_bitmap_, msr_bitmap_, suppress_rip_adjust_, caps>>

ProcessorBasedControls(controls) ==
  /\ ControlCall("processor_based_controls", controls,
                 set_processor_based_controls(Ctx(vmcs), controls))
  /\ UNCHANGED <<io_bitmap_, msr_bitmap_, suppress_rip_adjust_, caps>>

ProcessorBasedControls2(controls) ==
  /\ ControlCall("processor_based_controls2", controls,
                 set_processor_based_controls2(Ctx(vmcs), controls))
  /\ UNCHANGED <<io_bitmap_, msr_bitmap_, suppress_rip_adjust_, caps>>

VmEntryControls(controls) ==
  /\ ControlCall("vm_entry_controls", controls,
                 set_vm_entry_controls(Ctx(vmcs), controls))
  /\ UNCHANGED <<io_bitmap_, msr_bitmap_, suppress_rip_adjust_, caps>>

VmExitControls(controls) ==
  /\ ControlCall("vm_exit_controls", controls,
                 set_vm_exit_controls(Ctx(vmcs), controls))
  /\ UNCHANGED <<io_bitmap_, msr_bitmap_, suppress_rip_adjust_, caps>>

\* io_bitmap(io_bitmap) with an argument of contents b kept at va
IoBitmap(b, va) ==
  /\ ControlCall("io_bitmap", [bitmap |-> b, va |-> va],
                 set_io_bitmap(Ctx(vmcs), va))
  /\ io_bitmap_' = b
  /\ UNCHANGED <<msr_bitmap_, suppress_rip_adjust_, caps>>

NextControl ==
  \/ \E v \in ControlValues : PinBasedControls(v)
  \/ \E v \in ControlValues : ProcessorBasedControls(v)
  \/ \E v \in ControlValues : ProcessorBasedControls2(v)
  \/ \E v \in ControlValues : VmEntryControls(v)
  \/ \E v \in ControlValues : VmExitControls(v)
  \/ \E b \in IoBitmaps, va \in ArgumentVas : IoBitmap(b, va)

SpecControl == InitControl /\ [][NextControl]_vars

\* bit b of value v is what the capability pair p requires, if p requires
\* anything of it: 1 where allowed0 has a 1, 0 where allowed1 has a 0
C8_BitLegal(v, p, b) ==
  /\ (Bit(p.allowed0, b) = 1 => Bit(v, b) = 1)
  /\ (Bit(p.allowed1, b) = 0 => Bit(v, b) = 0)

\* C8: whatever was requested and whatever the capability pairs are, each
\* of the pin-based, processor-based, VM-entry and VM-exit control fields
\* that a setter (or the IO-bitmap setter) has written holds a legal value:
\* every mandatory-1 bit set, every mandatory-0 bit clear.  The secondary
\* processor-based controls hold the value the caller passed.
C8_ControlsLegal ==
  /\ \A b \in 0 .. 31 :
       /\ ("ctrl_pin_based_vm_execution_controls" \in ctrl_written
           => C8_BitLegal(vmcs["ctrl_pin_based_vm_execution_controls"],
                          caps["pin"], b))
       /\ ("ctrl_processor_based_vm_execution_controls" \in ctrl_written
           => C8_BitLegal(vmcs["ctrl_processor_based_vm_execution_controls"],
                          caps["proc"], b))
       /\ ("ctrl_vmentry_controls" \in ctrl_written
           => C8_BitLegal(vmcs["ctrl_vmentry_controls"], caps["entry"], b))
       /\ ("ctrl_vmexit_controls" \in ctrl_written
           => C8_BitLegal(vmcs["ctrl_vmexit_controls"], caps["exit"], b))
  /\ (last.op = "processor_based_controls2"
      => vmcs["ctrl_secondary_processor_based_vm_execution_controls"] = last.arg)

\* the pin-based setter was asked for a value with a mandatory-1 bit clear
\* and a mandatory-0 bit set, and wrote the legal value instead
C8_Witness ==
  /\ last.op = "pin_based_controls"
  /\ Bit(caps["pin"].allowed0, 1) = 1
  /\ Bit(caps["pin"].allowed1, 25) = 0
  /\ last.arg = BitWord(25)
  /\ vmcs[PinBased] = 2

IoBitmapInstalled == last.op = "io_bitmap"

\* what io_bitmap(b) does apart from the use-IO-bitmaps bit: the owned
\* storage holds a copy of b; the processor-based controls are read, then
\* written, and hold a legal value; the address fields hold the physical
\* addresses of the owned halves, not of the argument
C9_CopyControlsAddresses ==
  /\ io_bitmap_ = last.arg.bitmap
  /\ Len(last.trace) = 4
  /\ last.trace[1] = Event("vmread", ProcBased, last.pre[ProcBased])
  /\ last.trace[2] = Event("vmwrite", ProcBased, vmcs[ProcBased])
  /\ \A b \in 0 .. 31 :
       /\ C8_BitLegal(vmcs[ProcBased], caps["proc"], b)
       /\ ( /\ b # 25
            /\ Bit(caps["proc"].allowed0, b) = 0
            /\ Bit(caps["proc"].allowed1, b) = 1 )
          => Bit(vmcs[ProcBased], b) = Bit(last.pre[ProcBased], b)
  /\ vmcs[IoBitmapA] = from_va(io_bitmap_a_va)
  /\ vmcs[IoBitmapB] = from_va(io_bitmap_b_va)
  /\ vmcs[IoBitmapA] # from_va(last.arg.va)
  /\ vmcs[IoBitmapB] # from_va(last.arg.va + PageSize)

\* C9 as claimed: after io_bitmap(b), for every capability mask, the
\* use-IO-bitmaps bit of the processor-based controls reads back true (and
\* the copy, the controls and the addresses are as described).
C9_Original ==
  IoBitmapInstalled
  => /\ C9_CopyControlsAddresses
     /\ Bit(vmcs[ProcBased], 25) = 1

\* C9, amended: after io_bitmap(b) the copy, the controls and the addresses
\* are as described, and the use-IO-bitmaps bit of the processor-based
\* controls reads back true if the processor allows the bit to be 1 (the
\* allowed-1 mask of the processor-based controls has it); if not, the
\* adjusting setter clears it and it reads back false.
C9_IoBitmapInstall ==
  IoBitmapInstalled
  => /\ C9_CopyControlsAddresses
     /\ (Bit(vmcs[ProcBased], 25) = 1 <=> Bit(caps["proc"].allowed1, 25) = 1)

C9_Witness ==
  /\ IoBitmapInstalled
  /\ last.arg.bitmap = [a |-> 1, b |-> 0]
  /\ io_bitmap_ = [a |-> 1, b |-> 0]
  /\ Bit(caps["proc"].allowed1, 25) = 1
  /\ Bit(caps["proc"].allowed0, 1) = 1
  /\ last.pre[ProcBased] = 2
  /\ ProcBased \in ctrl_written
  /\ vmcs[ProcBased] = 2 + BitWord(25)

(***************************************************************************)
(* Host segment registers: host_cs ... host_tr.                            *)
(*                                                                         *)
(* A segment selector (selector_t) is a 16-bit word: rpl in bits 1:0,      *)
(* table in bit 2, index in bits 15:3.  A seg_t argument is modelled by    *)
(* its selector and base_address, the members the host accessors touch.    *)
(***************************************************************************)
selector_rpl(s) == s % 4
selector_table(s) == (s \div 4) % 2
selector_index(s) == (s \div 8) % Pow2(13)

Selector(index, table, rpl) == 8 * index + 4 * table + rpl

HostSelector(seg) == "host_" \o seg \o "_selector"
HostBase(seg) == "host_" \o seg \o "_base"

\* mutant: the selector is written as the caller passed it
set_host_seg_raw_selector(c, seg, s) ==
  LET c0 == vmwrite(c, HostSelector(seg), s.selector)
  IN  IF seg \in HostSegsWithBase
      THEN vmwrite(c0, HostBase(seg), s.base_address)
      ELSE c0

\* void vcpu::host_cs(seg_t<cs_t> cs) ... void vcpu::host_tr(seg_t<tr_t> tr)
set_host_seg(c, seg, s) ==
  LET c0 == vmwrite(c, HostSelector(seg), selector_index(s.selector) * 8)
  IN  IF seg \in HostSegsWithBase
      THEN vmwrite(c0, HostBase(seg), s.base_address)
      ELSE c0

\* auto vcpu::host_cs() const -> seg_t<cs_t> ... auto vcpu::host_tr() const:
\* the context after the reads, and the seg_t returned; result0 is the
\* local "seg_t<...> cs;" before the reads
host_seg(c, seg, result0) ==
  LET c0 == vmread(c, HostSelector(seg))
  IN  IF seg \in HostSegsWithBase
      THEN [ctx |-> vmread(c0, HostBase(seg)),
            result |-> [selector |-> c.vmcs[HostSelector(seg)],
                        base_address |-> c.vmcs[HostBase(seg)]]]
      ELSE [ctx |-> c0,
            result |-> [selector |-> c.vmcs[HostSelector(seg)],
                        base_address |-> result0.base_address]]

\* the selectors and base addresses the model draws from
SelectorIndexes == {0, 1, Pow2(13) - 1}
Selectors ==
  {Selector(i, t, r) : i \in SelectorIndexes, t \in 0 .. 1, r \in {0, 3}}
BaseAddresses == {0, PageSize}
SegValues ==
  {[selector |-> sel, base_address |-> base] :
     sel \in Selectors, base \in BaseAddresses}

\* the caller calls host_<seg>(s)
SetHostSeg(seg, s) ==
  /\ Idle
  /\ LET c == set_host_seg(Ctx(vmcs), seg, s)
     IN  /\ vmcs' = c.vmcs
         /\ last' = [op |-> "host_seg", seg |-> seg, arg |-> s, pre |-> vmcs,
                     trace |-> c.trace, failed |-> c.failed]
  /\ UNCHANGED <<io_bitmap_, msr_bitmap_, suppress_rip_adjust_, caps,
                 ctrl_written, calls>>

\* the caller then calls host_<seg>(host_<seg>()): the setter on what the
\* getter returns
ReapplyHostSeg(seg, result0) ==
  /\ last.op = "host_seg"
  /\ LET g == host_seg(Ctx(vmcs), seg, result0)
         c == set_host_seg(g.ctx, seg, g.result)
     IN  /\ vmcs' = c.vmcs
         /\ last' = [op |-> "host_seg_reapply", seg |-> seg,
                     arg |-> g.result, pre |-> vmcs, trace |-> c.trace,
                     failed |-> c.failed]
  /\ UNCHANGED <<io_bitmap_, msr_bitmap_, suppress_rip_adjust_, caps,
                 ctrl_written, calls>>

NextHost ==
  \/ \E seg \in HostSegs, s \in SegValues : SetHostSeg(seg, s)
  \/ \E seg \in HostSegs, result0 \in SegValues : ReapplyHostSeg(seg, result0)

SpecHost == Init /\ [][NextHost]_vars

\* C10: after host_<seg>(s), for each of CS, DS, ES, FS, GS, SS, TR and
\* every selector s, the host selector field holds index(s) * 8: read back
\* it has the index of s, table indicator 0 and privilege level 0.  For FS,
\* GS and TR the base address field holds the base address of s; for the
\* others the selector is the only field written.  Calling the setter again
\* on what the getter returns changes no field.
C10_HostSelectorCanonical ==
  /\ last.op = "host_seg"
     => LET sel == vmcs["host_" \o last.seg \o "_selector"]
        IN  /\ sel = (last.arg.selector \div 8) * 8
            /\ sel \div 8 = last.arg.selector \div 8
            /\ (sel \div 4) % 2 = 0
            /\ sel % 4 = 0
            /\ IF last.seg \in {"fs", "gs", "tr"}
               THEN /\ vmcs["host_" \o last.seg \o "_base"]
                         = last.arg.base_address
                    /\ FieldsWritten(last.trace)
                         = {"host_" \o last.seg \o "_selector",
                            "host_" \o last.seg \o "_base"}
               ELSE FieldsWritten(last.trace)
                         = {"host_" \o last.seg \o "_selector"}
  /\ last.op = "host_seg_reapply"
     => /\ vmcs = last.pre
        /\ "host_" \o last.seg \o "_selector" \in FieldsWritten(last.trace)

C10_Witness ==
  /\ last.op = "host_seg"
  /\ last.seg = "tr"
  /\ last.arg = [selector |-> 65535, base_address |-> PageSize]
  /\ vmcs["host_tr_selector"] = 65528
  /\ vmcs["host_tr_base"] = PageSize

(***************************************************************************)
(* The get/set pairs.  A value of an accessor is a record of the members   *)
(* of its C++ type: flags for a scalar or a flags word, base_address and   *)
(* limit for gdtr_t / idtr_t, base_address, limit, access and selector for *)
(* a guest seg_t.                                                          *)
(***************************************************************************)
\* the pairs that read and write one field, unchanged
ScalarField(a) ==
  CASE a = "processor_based_controls2" -> ProcBased2
    [] a = "exception_bitmap" -> "ctrl_exception_bitmap"
    [] a = "pagefault_error_code_mask" -> "ctrl_pagefault_error_code_mask"
    [] a = "pagefault_error_code_match" -> "ctrl_pagefault_error_code_match"
    [] a = "entry_instruction_length" -> "ctrl_vmentry_instruction_length"
    [] a = "entry_interruption_info" -> "ctrl_vmentry_interruption_info"
    [] a = "entry_interruption_error_code" -> "ctrl_vmentry_exception_error_code"
    [] a = "guest_cr0_shadow" -> "ctrl_cr0_read_shadow"
    [] a = "guest_cr0" -> "guest_cr0"
    [] a = "guest_cr3" -> "guest_cr3"
    [] a = "guest_cr4_shadow" -> "ctrl_cr4_read_shadow"
    [] a = "guest_cr4" -> "guest_cr4"
    [] a = "guest_dr7" -> "guest_dr7"
    [] a = "guest_debugctl" -> "guest_debugctl"
    [] a = "guest_rsp" -> "guest_rsp"
    [] a = "guest_rip" -> "guest_rip"
    [] a = "guest_rflags" -> "guest_rflags"
    [] a = "host_cr0" -> "host_cr0"
    [] a = "host_cr3" -> "host_cr3"
    [] a = "host_cr4" -> "host_cr4"
    [] a = "host_rsp" -> "host_rsp"
    [] a = "host_rip" -> "host_rip"

ScalarAccessors ==
  { "processor_based_controls2", "exception_bitmap",
    "pagefault_error_code_mask", "pagefault_error_code_match",
    "entry_instruction_length", "entry_interruption_info",
    "entry_interruption_error_code",
    "guest_cr0_shadow", "guest_cr0", "guest_cr3", "guest_cr4_shadow",
    "guest_cr4", "guest_dr7", "guest_debugctl", "guest_rsp", "guest_rip",
    "guest_rflags",
    "host_cr0", "host_cr3", "host_cr4", "host_rsp", "host_rip" }

\* the pairs whose setter goes through vmx::adjust, and their groups
AdjustedAccessors ==
  {"pin_based_controls", "processor_based_controls", "vm_entry_controls",
   "vm_exit_controls"}

AccessorGroup(a) ==
  CASE a = "pin_based_controls" -> "pin"
    [] a = "processor_based_controls" -> "proc"
    [] a = "vm_entry_controls" -> "entry"
    [] a = "vm_exit_controls" -> "exit"

GuestTableAccessors == {"guest_gdtr", "guest_idtr"}
HostTableAccessors == {"host_gdtr", "host_idtr"}
GuestSegAccessors == {"guest_" \o seg : seg \in GuestSegs}
HostSegAccessors == {"host_" \o seg : seg \in HostSegs}

\* the segment of a host segment accessor
AccessorSeg(a) == CHOOSE seg \in HostSegs : a = "host_" \o seg

\* the pairs that write members to fields as they are and read them back
PlainAccessors ==
  ScalarAccessors \cup AdjustedAccessors \cup GuestTableAccessors
  \cup HostTableAccessors \cup GuestSegAccessors

Accessors == PlainAccessors \cup HostSegAccessors

\* the members of the accessor's type
Members(a) ==
  IF a \in ScalarAccessors \cup AdjustedAccessors THEN {"flags"}
  ELSE IF a \in GuestTableAccessors \cup HostTableAccessors
  THEN {"base_address", "limit"}
  ELSE IF a \in GuestSegAccessors
  THEN {"base_address", "limit", "access", "selector"}
  ELSE {"selector", "base_address"}

\* the vmread calls of the getter of a plain pair, in order: <<member, field>>
AccessorReads(a) ==
  IF a \in ScalarAccessors THEN << <<"flags", ScalarField(a)>> >>
  ELSE IF a \in AdjustedAccessors
  THEN << <<"flags", GroupField(AccessorGroup(a))>> >>
  ELSE IF a \in GuestTableAccessors
  THEN << <<"base_address", a \o "_base">>, <<"limit", a \o "_limit">> >>
  ELSE IF a \in HostTableAccessors
  THEN << <<"base_address", a \o "_base">> >>
  ELSE << <<"base_address", a \o "_base">>, <<"limit", a \o "_limit">>,
          <<"access", a \o "_access_rights">>, <<"selector", a \o "_selector">> >>

\* mutant: the setter of guest_cr4 names the field of guest_cr0
AccessorWrites_cr4_to_cr0(a) ==
  IF a = "guest_cr4" THEN << <<"flags", "guest_cr0">> >> ELSE AccessorReads(a)

\* the vmwrite calls of the setter of a plain pair, in order: the setters
\* name the fields their getters name, in the same order
AccessorWrites(a) == AccessorReads(a)

\* the value a setter passes to vmwrite for a member
WrittenValue(a, x) ==
  IF a \in AdjustedAccessors THEN adjust(AccessorGroup(a), x) ELSE x

RECURSIVE WriteMembers(_, _, _, _)
WriteMembers(c, a, v, ws) ==
  IF ws = <<>> THEN c
  ELSE WriteMembers(vmwrite(c, Head(ws)[2], WrittenValue(a, v[Head(ws)[1]])),
                    a, v, Tail(ws))

RECURSIVE ReadFields(_, _)
ReadFields(c, rs) ==
  IF rs = <<>> THEN c ELSE ReadFields(vmread(c, Head(rs)[2]), Tail(rs))

\* the setter of pair a, called with v
accessor_set(c, a, v) ==
  IF a \in HostSegAccessors
  THEN set_host_seg(c, AccessorSeg(a), v)
  ELSE WriteMembers(c, a, v, AccessorWrites(a))

\* the getter of pair a: the context after it and the value it returns, a
\* member that is not read being what the local held before: result0
accessor_get(c, a, result0) ==
  IF a \in HostSegAccessors
  THEN host_seg(c, AccessorSeg(a), result0)
  ELSE LET rs == AccessorReads(a)
           read == {rs[i][1] : i \in DOMAIN rs}
           field(m) == rs[CHOOSE i \in DOMAIN rs : rs[i][1] = m][2]
       IN  [ctx |-> ReadFields(c, rs),
            result |-> [m \in Members(a) |->
                          IF m \in read THEN c.vmcs[field(m)] ELSE result0[m]]]

\* the values the model draws from
Words == {0, 1, AllOnes}
TestSelectors == {Selector(1, 0, 0), Selector(Pow2(13) - 1, 1, 3)}

AccessorValues(a) ==
  IF a \in ScalarAccessors THEN {[flags |-> x] : x \in Words}
  ELSE IF a \in AdjustedAccessors THEN {[flags |-> x] : x \in ControlValues}
  ELSE IF a \in GuestTableAccessors \cup HostTableAccessors
  THEN {[base_address |-> b, limit |-> l] :
          b \in BaseAddresses, l \in {0, Pow2(16) - 1}}
  ELSE IF a \in GuestSegAccessors
  THEN {[base_address |-> b, limit |-> l, access |-> r, selector |-> sel] :
          b \in BaseAddresses, l \in {0, AllOnes}, r \in 0 .. 1,
          sel \in TestSelectors}
  ELSE SegValues

\* the caller calls the setter of pair a with v and then its getter
SetGet(a, v, result0) ==
  /\ Idle
  /\ LET c == accessor_set(Ctx(vmcs), a, v)
         g == accessor_get(c, a, result0)
     IN  /\ vmcs' = g.ctx.vmcs
         /\ last' = [op |-> "set_get", accessor |-> a, arg |-> v,
                     result |-> g.result, pre |-> vmcs,
                     trace |-> g.ctx.trace, failed |-> g.ctx.failed]
  /\ UNCHANGED <<io_bitmap_, msr_bitmap_, suppress_rip_adjust_, caps,
                 ctrl_written, calls>>

\* void vcpu::msr_bitmap(const vmx::msr_bitmap& msr_bitmap), after the copy
\* of the argument into msr_bitmap_
set_msr_bitmap(c) == vmwrite(c, "ctrl_msr_bitmap_address", from_va(msr_bitmap_va))

\* the caller calls msr_bitmap(b) and then msr_bitmap()
MsrBitmapSetGet(b) ==
  /\ Idle
  /\ LET c == set_msr_bitmap(Ctx(vmcs))
     IN  /\ vmcs' = c.vmcs
         /\ msr_bitmap_' = b
         /\ last' = [op |-> "set_get", accessor |-> "msr_bitmap", arg |-> b,
                     result |-> b, pre |-> vmcs, trace |-> c.trace,
                     failed |-> c.failed]
  /\ UNCHANGED <<io_bitmap_, suppress_rip_adjust_, caps, ctrl_written, calls>>

\* the caller calls io_bitmap(b), b kept at va, and then io_bitmap()
IoBitmapSetGet(b, va) ==
  /\ Idle
  /\ LET c == set_io_bitmap(Ctx(vmcs), va)
     IN  /\ vmcs' = c.vmcs
         /\ io_bitmap_' = b
         /\ last' = [op |-> "set_get", accessor |-> "io_bitmap", arg |-> b,
                     result |-> b, pre |-> vmcs, trace |-> c.trace,
                     failed |-> c.failed]
  /\ UNCHANGED <<msr_bitmap_, suppress_rip_adjust_, caps, ctrl_written, calls>>

NextRoundTrip ==
  \/ \E a \in Accessors :
       \E v \in AccessorValues(a), result0 \in AccessorValues(a) :
         SetGet(a, v, result0)
  \/ \E b \in 0 .. 1 : MsrBitmapSetGet(b)
  \/ \E b \in IoBitmaps, va \in ArgumentVas : IoBitmapSetGet(b, va)

SpecRoundTrip == InitControl /\ [][NextRoundTrip]_vars

RoundTripped == last.op = "set_get"

\* the claim as it was made: every pair but the host segment pairs returns
\* the value that was set, the control setters and host_gdtr / host_idtr
\* included
C6_Original ==
  (RoundTripped /\ last.accessor \notin HostSegAccessors)
    => last.result = last.arg

\* bit b of the value read back is what the capability pair p requires, or
\* bit b of the requested value where p leaves the bit free
C6_BitRoundTrip(read, requested, p, b) ==
  IF Bit(p.allowed0, b) = 1 THEN Bit(read, b) = 1
  ELSE IF Bit(p.allowed1, b) = 0 THEN Bit(read, b) = 0
  ELSE Bit(read, b) = Bit(requested, b)

\* C6: set(v) followed immediately by get() returns v for the secondary
\* processor-based controls, the exception bitmap, the page-fault mask and
\* match, the entry fields, the guest fields (registers, GDTR, IDTR and
\* segments), the host control registers, RSP and RIP, and the MSR and IO
\* bitmaps.  The pin-based, processor-based, VM-entry and VM-exit controls
\* read back the capability-adjusted value: v on the bits the capabilities
\* leave free, the mandated value elsewhere, hence v only when v is legal.
\* host_gdtr and host_idtr return the base address that was set; the limit
\* is not stored.  The host segment pairs return the selector index * 8
\* and, for FS, GS and TR, the base address.
C6_RoundTrip ==
  RoundTripped =>
    IF last.accessor \in AdjustedAccessors
    THEN \A b \in 0 .. 31 :
           C6_BitRoundTrip(last.result.flags, last.arg.flags,
                           caps[AccessorGroup(last.accessor)], b)
    ELSE IF last.accessor \in HostTableAccessors
    THEN /\ last.result.base_address = last.arg.base_address
         /\ FieldsWritten(last.trace) = {last.accessor \o "_base"}
         /\ FieldsRead(last.trace) = {last.accessor \o "_base"}
    ELSE IF last.accessor \in HostSegAccessors
    THEN /\ last.result.selector = (last.arg.selector \div 8) * 8
         /\ (last.accessor \in {"host_fs", "host_gs", "host_tr"}
             => last.result.base_address = last.arg.base_address)
    ELSE last.result = last.arg

\* guest_tr was set to a value with every member non-zero and read back
\* the same
C6_Witness ==
  /\ RoundTripped
  /\ last.accessor = "guest_tr"
  /\ last.arg = [base_address |-> PageSize, limit |-> AllOnes, access |-> 1,
                 selector |-> 65535]
  /\ last.result = last.arg

(***************************************************************************)
(* Event reflection: the exit handler passes what exit_interrupt_info()    *)
(* returns straight to inject().                                           *)
(***************************************************************************)
\* the exit handler calls inject(exit_interrupt_info())
Reflect(result0) ==
  /\ last.op = "vmexit"
  /\ LET r == exit_interrupt_info(Ctx(vmcs), result0)
         c == inject(r.ctx, r.result)
     IN  /\ vmcs' = c.vmcs
         /\ last' = [op |-> "reflect", arg |-> r.result, pre |-> vmcs,
                     trace |-> c.trace, failed |-> c.failed]
  /\ UNCHANGED <<io_bitmap_, msr_bitmap_, suppress_rip_adjust_, caps,
                 ctrl_written, calls>>

\* two of the default-constructed descriptors
ReflectDefaults == {Descriptor(0, 0, -1), Descriptor(0, AllOnes, 0)}

\* the entry fields hold what an earlier injection left there, or nothing
NextReflect ==
  \/ SetEntryInstructionLength(MaxLen)
  \/ SetEntryInterruptionErrorCode(AllOnes)
  \/ \E info \in ExitWords, e \in ErrorCodes, len \in InstrLengths :
       VMExit(info, e, len)
  \/ \E result0 \in ReflectDefaults : Reflect(result0)

SpecReflect == Init /\ [][NextReflect]_vars

\* an event the exit reported as valid has been reflected
Reflected == last.op = "reflect" /\ last.pre[ExitInfo] < 0

\* the exit word is a hardware exception of a vector inject checks
ReflectedChecked ==
  /\ (last.pre[ExitInfo] \div 256) % 8 = 3
  /\ last.pre[ExitInfo] % 256 \in {8, 10, 11, 12, 13, 14, 17}

\* the error-code contract of inject holds of the exit state
ReflectedContract ==
  /\ (last.pre[ExitInfo] \div 2048) % 2 = 1
  /\ (last.pre[ExitInfo] % 256 \in {8, 17} => last.pre[ExitErrorCode] = 0)

\* the claim as it was made: every valid exit event reflects without a
\* contract violation, the entry information equals the exit word, the
\* entry error code equals the exit error code whenever the word marks one,
\* and for the software class the entry instruction length equals the exit
\* instruction length
C11_Original ==
  Reflected =>
    /\ Succeeded
    /\ vmcs[EntryInfo] = last.pre[ExitInfo]
    /\ ((last.pre[ExitInfo] \div 2048) % 2 = 1
        => vmcs[EntryErrorCode] = last.pre[ExitErrorCode])
    /\ ((last.pre[ExitInfo] \div 256) % 8 \in {4, 5, 6}
        => vmcs[EntryLength] = last.pre[ExitLength])

\* C11: after inject(exit_interrupt_info()) on an exit whose interruption
\* information is valid, the VM-entry interruption information equals the
\* exit word.  For a hardware exception with vector #DF, #TS, #NP, #SS,
\* #GP, #PF or #AC the call completes without a contract violation exactly
\* when the word has its error-code-valid bit set (and, for #DF and #AC,
\* the exit error code is zero), and the VM-entry error code then equals
\* the exit error code; for every other word no check is made and the
\* VM-entry error code keeps its value, whatever the error-code-valid bit.
\* For types software, privileged_exception and software_exception the
\* VM-entry instruction length equals the exit instruction length when that
\* length is greater than zero and keeps its value when it is zero; for the
\* other types it keeps its value.
C11_Reflection ==
  Reflected =>
    /\ vmcs[EntryInfo] = last.pre[ExitInfo]
    /\ IF ReflectedChecked
       THEN IF ReflectedContract
            THEN Succeeded /\ vmcs[EntryErrorCode] = last.pre[ExitErrorCode]
            ELSE ContractViolation
       ELSE /\ Succeeded
            /\ Asserts(last.trace) = {}
            /\ vmcs[EntryErrorCode] = last.pre[EntryErrorCode]
    /\ IF /\ (last.pre[ExitInfo] \div 256) % 8 \in {4, 5, 6}
          /\ last.pre[ExitLength] > 0
       THEN vmcs[EntryLength] = last.pre[ExitLength]
       ELSE vmcs[EntryLength] = last.pre[EntryLength]

\* a page fault with error code 1 was reflected over older entry fields
C11_Witness ==
  /\ Reflected
  /\ last.pre[ExitInfo] = InfoWord(14, 3, TRUE, FALSE, TRUE)
  /\ last.pre[ExitErrorCode] = 1
  /\ last.pre[EntryErrorCode] = AllOnes
  /\ last.pre[EntryLength] > 0
  /\ vmcs[EntryInfo] = InfoWord(14, 3, TRUE, FALSE, TRUE)
  /\ vmcs[EntryErrorCode] = 1
  /\ vmcs[EntryLength] = last.pre[EntryLength]
  /\ Succeeded

(***************************************************************************)
(* What inject writes, whatever the descriptor.                            *)
(***************************************************************************)
\* C12: the first step of inject, before any contract check, is the write
\* of the descriptor's info word, valid bit included, to the VM-entry
\* interruption-information field, which holds it afterwards.  When the
\* valid bit is clear that write is all the call does: no other field
\* changes (the VM-entry error code and instruction length among them), the
\* VM-exit instruction length is not read and no assertion is evaluated,
\* whatever the type, vector, error code and rip_adjust.
C12_InfoAlwaysFirst ==
  Injected =>
    /\ Len(last.trace) >= 1
    /\ last.trace[1] = Event("vmwrite", EntryInfo, last.arg.info_)
    /\ vmcs[EntryInfo] = last.arg.info_
    /\ (vmcs[EntryInfo] < 0 <=> last.arg.info_ < 0)
    /\ last.arg.info_ >= 0
       => /\ Len(last.trace) = 1
          /\ \A f \in Fields \ {EntryInfo} : vmcs[f] = last.pre[f]
          /\ ExitLength \notin FieldsRead(last.trace)
          /\ Asserts(last.trace) = {}
          /\ ~last.failed

\* an invalid general-protection descriptor with no error code and no
\* length was injected over entry fields that held something
C12_Witness ==
  /\ Injected
  /\ last.arg = Descriptor(InfoWord(13, 3, FALSE, FALSE, FALSE), 1, -1)
  /\ last.pre[EntryErrorCode] = AllOnes
  /\ last.pre[EntryLength] > 0
  /\ last.pre[ExitLength] > 0
  /\ vmcs[EntryInfo] = 13 + 3 * 256
  /\ vmcs[EntryErrorCode] = AllOnes
  /\ vmcs[EntryLength] = last.pre[EntryLength]

\* the descriptor is one of those whose error code inject checks
ErrorCodeChecked ==
  /\ last.arg.info_ < 0
  /\ (last.arg.info_ \div 256) % 8 = 3
  /\ last.arg.info_ % 256 \in {8, 10, 11, 12, 13, 14, 17}

\* the claim as it was made: the error-code field is written if and only if
\* the descriptor is valid, a hardware exception, and of a checked vector
C13_Original ==
  Injected => (EntryErrorCode \in FieldsWritten(last.trace) <=> ErrorCodeChecked)

\* C13: inject writes the VM-entry exception-error-code field only if the
\* descriptor is valid, its type is hardware_exception and its vector is
\* #DF, #TS, #NP, #SS, #GP, #PF or #AC.  For such a descriptor the error-code
\* assertion is evaluated first: if it holds, the field is written with the
\* descriptor's error code; if it fails, the call stops there and the field
\* is not written.  For every other descriptor the field keeps its value
\* and no assertion is evaluated, even when the descriptor carries an error
\* code and the info word written has its error-code-valid bit set.
C13_ErrorCodeWritten ==
  Injected =>
    IF ErrorCodeChecked
    THEN /\ Asserts(last.trace) # {}
         /\ IF Succeeded
            THEN /\ EntryErrorCode \in FieldsWritten(last.trace)
                 /\ vmcs[EntryErrorCode] = last.arg.error_code_
            ELSE /\ ContractViolation
                 /\ EntryErrorCode \notin FieldsWritten(last.trace)
                 /\ vmcs[EntryErrorCode] = last.pre[EntryErrorCode]
    ELSE /\ EntryErrorCode \notin FieldsWritten(last.trace)
         /\ vmcs[EntryErrorCode] = last.pre[EntryErrorCode]
         /\ Asserts(last.trace) = {}
         /\ vmcs[EntryInfo] = last.arg.info_

\* a valid breakpoint hardware exception carrying error code 1, its info
\* word marking the code valid, was injected and left the field alone
C13_Witness ==
  /\ Injected
  /\ last.arg.info_ = InfoWord(3, 3, TRUE, FALSE, TRUE)
  /\ last.arg.error_code_ = 1
  /\ last.pre[EntryErrorCode] = AllOnes
  /\ vmcs[EntryErrorCode] = AllOnes
  /\ Bit(vmcs[EntryInfo], 11) = 1

==========================================================================
